---- MODULE Spec2Model ----
(***************************************************************************)
(* A model of str_analysis/check_trios_for_mendelian_violations.py:        *)
(* group_rows_by_trio and compute_mendelian_violations, with the helpers   *)
(* they call.  Strings that the code parses (Genotype,                     *)
(* GenotypeConfidenceInterval) are sequences of one-character strings, so  *)
(* that str.split and int() are computed rather than assumed.              *)
(***************************************************************************)
EXTENDS Integers, Sequences, FiniteSets, TLC

VARIABLES
    trio_rows,      \* argument of compute_mendelian_violations: list of (proband, father, mother)
    i,              \* position of the for-loop of line 218 (1-based index of the next trio)
    counters,       \* collections.defaultdict(int), line 212
    counters_ci,    \* collections.defaultdict(int), line 213
    results,        \* list of mendelian_results_string keys, line 214
    results_ci,     \* list of mendelian_ci_results_string keys, line 215
    results_rows,   \* list of result dicts, line 217
    pc,             \* "loop" | "returned" | "AssertionError" in compute_mendelian_violations,
                    \* "cache" | "match" | "grouped" in group_rows_by_trio
    combined_str_calls_df,  \* the joined calls table main() passes to group_rows_by_trio, line 384
    filtered_df,    \* group_rows_by_trio's own combined_str_calls_df after line 148
    all_rows,       \* dict (identifier, LocusId, VariantId) -> row, line 137
    other_rows,     \* line 146
    trio_ids,       \* line 144
    calls_counter   \* line 143

scoreVars == <<counters, counters_ci, results, results_ci, results_rows>>
groupVars == <<combined_str_calls_df, filtered_df, all_rows, other_rows, trio_ids, calls_counter>>
vars == <<trio_rows, i, pc, scoreVars, groupVars>>

----------------------------------------------------------------------------
(* Bounds of the model *)

\* longest trio list given to one run of compute_mendelian_violations
MaxTrios == 3
\* most rows of a calls table given to group_rows_by_trio
MaxRows == 4
\* most rows of a calls table whose loci have several variants
MaxSiteRows == 3
\* allele lengths of the exhaustive single-trio inputs with exact confidence intervals: 8..MaxAllele
MaxAllele == 10
\* allele lengths and interval endpoints of the exhaustive single-trio inputs
\* with arbitrary confidence intervals: 9..MaxCI
MaxCI == 10

----------------------------------------------------------------------------
(* Python built-ins on strings and lists *)

DigitChars == <<"0", "1", "2", "3", "4", "5", "6", "7", "8", "9">>

DigitVal(c) == (CHOOSE d \in 1..10 : DigitChars[d] = c) - 1

\* str(n) for a non-negative int
RECURSIVE IntToStr(_)
IntToStr(n) ==
    IF n < 10 THEN <<DigitChars[n + 1]>>
    ELSE IntToStr(n \div 10) \o <<DigitChars[(n % 10) + 1]>>

\* int(s) for a string of decimal digits
RECURSIVE StrToInt(_)
StrToInt(s) ==
    IF Len(s) = 1 THEN DigitVal(s[1])
    ELSE 10 * StrToInt(SubSeq(s, 1, Len(s) - 1)) + DigitVal(s[Len(s)])

\* s.split(sep) for a one-character separator
RECURSIVE Split(_, _)
Split(s, sep) ==
    IF \A k \in 1..Len(s) : s[k] # sep THEN <<s>>
    ELSE LET k == CHOOSE j \in 1..Len(s) :
                      /\ s[j] = sep
                      /\ \A h \in 1..(j - 1) : s[h] # sep
         IN  <<SubSeq(s, 1, k - 1)>> \o Split(SubSeq(s, k + 1, Len(s)), sep)

\* sep.join(parts)
RECURSIVE Join(_, _)
Join(parts, sep) ==
    IF Len(parts) = 1 THEN parts[1]
    ELSE parts[1] \o <<sep>> \o Join(Tail(parts), sep)

\* x in list
In(x, list) == \E k \in 1..Len(list) : list[k] = x

\* min(list) of a non-empty list of ints
MinList(list) ==
    CHOOSE m \in {list[k] : k \in 1..Len(list)} :
        \A k \in 1..Len(list) : m <= list[k]

Min2(a, b) == IF a <= b THEN a ELSE b

Abs(x) == IF x < 0 THEN -x ELSE x

\* set(list)
SetOf(list) == {list[k] : k \in 1..Len(list)}

----------------------------------------------------------------------------
(* intervaltree.Interval as line 9 imports it (intervaltree 3.x) *)

Interval(begin, end) == [begin |-> begin, end |-> end]

\* Interval.overlaps(other): half-open test, begin < self.end and end > self.begin
IntervalOverlaps(self, other) == other.begin < self.end /\ other.end > self.begin

\* Interval.distance_to(other)
distance_to(self, other) ==
    IF IntervalOverlaps(self, other) THEN 0
    ELSE IF self.begin < other.begin THEN other.begin - self.end
    ELSE self.begin - other.end

----------------------------------------------------------------------------
(* Helpers of the module *)

\* a variant that treats the intervals as half-open
intervals_overlap_HalfOpen(i1, i2) == ~(i1.end <= i2.begin \/ i2.end <= i1.begin)

intervals_overlap(i1, i2) == ~(i1.end < i2.begin \/ i2.end < i1.begin)

\* a variant that takes the largest distance
compute_min_distance_mendelian_Max(proband_allele, parent_alleles) ==
    CHOOSE m \in {Abs(StrToInt(proband_allele) - StrToInt(parent_alleles[k])) : k \in 1..Len(parent_alleles)} :
        \A k \in 1..Len(parent_alleles) :
            m >= Abs(StrToInt(proband_allele) - StrToInt(parent_alleles[k]))

compute_min_distance_mendelian(proband_allele, parent_alleles) ==
    MinList([k \in 1..Len(parent_alleles) |->
                Abs(StrToInt(proband_allele) - StrToInt(parent_alleles[k]))])

compute_min_distance_mendelian_ci(proband_CI, parent_CIs) ==
    MinList([k \in 1..Len(parent_CIs) |-> Abs(distance_to(proband_CI, parent_CIs[k]))])

\* [Interval(*[int(i) for i in ci.split("-")]) for ci in s.split("/")]
ParseCIs(s) ==
    LET cis == Split(s, "/")
    IN  [k \in 1..Len(cis) |->
            LET b == Split(cis[k], "-")
            IN  Interval(StrToInt(b[1]), StrToInt(b[2]))]

\* any([intervals_overlap(ci, i) for i in parent_CIs])
AnyOverlap(ci, parent_CIs) == \E k \in 1..Len(parent_CIs) : intervals_overlap(ci, parent_CIs[k])

----------------------------------------------------------------------------
(* compute_mendelian_violations: the body of the loop of line 218 *)

\* a variant that lets three alleles through
AlleleCountOk_UpToThree(alleles) == Len(alleles) \in {1, 2, 3}

\* lines 224-226: len(alleles) in [1, 2]
AlleleCountOk(alleles) == Len(alleles) \in {1, 2}

\* a variant that tries only the first assignment of a two-allele proband
ok_mendelian_FirstAssignmentOnly(proband_alleles, father_alleles, mother_alleles) ==
    IF Len(proband_alleles) = 1
    THEN In(proband_alleles[1], father_alleles) \/ In(proband_alleles[1], mother_alleles)
    ELSE In(proband_alleles[1], father_alleles) /\ In(proband_alleles[2], mother_alleles)

\* lines 236 and 246-248
ok_mendelian(proband_alleles, father_alleles, mother_alleles) ==
    IF Len(proband_alleles) = 1
    THEN In(proband_alleles[1], father_alleles) \/ In(proband_alleles[1], mother_alleles)
    ELSE \/ (In(proband_alleles[1], father_alleles) /\ In(proband_alleles[2], mother_alleles))
         \/ (In(proband_alleles[2], father_alleles) /\ In(proband_alleles[1], mother_alleles))

\* a variant whose second sum repeats the first
distance_mendelian_SameSumTwice(proband_alleles, father_alleles, mother_alleles) ==
    IF Len(proband_alleles) = 1
    THEN Min2(compute_min_distance_mendelian(proband_alleles[1], father_alleles),
              compute_min_distance_mendelian(proband_alleles[1], mother_alleles))
    ELSE Min2(compute_min_distance_mendelian(proband_alleles[1], father_alleles)
                + compute_min_distance_mendelian(proband_alleles[2], mother_alleles),
              compute_min_distance_mendelian(proband_alleles[1], father_alleles)
                + compute_min_distance_mendelian(proband_alleles[2], mother_alleles))

\* lines 237-238 and 249-252
distance_mendelian(proband_alleles, father_alleles, mother_alleles) ==
    IF Len(proband_alleles) = 1
    THEN Min2(compute_min_distance_mendelian(proband_alleles[1], father_alleles),
              compute_min_distance_mendelian(proband_alleles[1], mother_alleles))
    ELSE Min2(compute_min_distance_mendelian(proband_alleles[1], father_alleles)
                + compute_min_distance_mendelian(proband_alleles[2], mother_alleles),
              compute_min_distance_mendelian(proband_alleles[2], father_alleles)
                + compute_min_distance_mendelian(proband_alleles[1], mother_alleles))

\* a variant that makes a one-allele proband inherit from the mother
ok_mendelian_ci_MotherOnly(n, proband_CIs, father_CIs, mother_CIs) ==
    IF n = 1
    THEN AnyOverlap(proband_CIs[1], mother_CIs)
    ELSE \/ (AnyOverlap(proband_CIs[1], father_CIs) /\ AnyOverlap(proband_CIs[2], mother_CIs))
         \/ (AnyOverlap(proband_CIs[2], father_CIs) /\ AnyOverlap(proband_CIs[1], mother_CIs))

\* lines 240 and 254-256; n is len(proband_alleles), which selects the branch
ok_mendelian_ci(n, proband_CIs, father_CIs, mother_CIs) ==
    IF n = 1
    THEN AnyOverlap(proband_CIs[1], father_CIs) \/ AnyOverlap(proband_CIs[1], mother_CIs)
    ELSE \/ (AnyOverlap(proband_CIs[1], father_CIs) /\ AnyOverlap(proband_CIs[2], mother_CIs))
         \/ (AnyOverlap(proband_CIs[2], father_CIs) /\ AnyOverlap(proband_CIs[1], mother_CIs))

\* lines 241-243 and 257-260
distance_mendelian_ci(n, proband_CIs, father_CIs, mother_CIs) ==
    IF n = 1
    THEN Min2(compute_min_distance_mendelian_ci(proband_CIs[1], father_CIs),
              compute_min_distance_mendelian_ci(proband_CIs[1], mother_CIs))
    ELSE Min2(compute_min_distance_mendelian_ci(proband_CIs[1], father_CIs)
                + compute_min_distance_mendelian_ci(proband_CIs[2], mother_CIs),
              compute_min_distance_mendelian_ci(proband_CIs[2], father_CIs)
                + compute_min_distance_mendelian_ci(proband_CIs[1], mother_CIs))

\* line 301
MendelianViolationSummary(ok, ok_ci) ==
    IF ~ok_ci THEN "MV-CI!" ELSE (IF ~ok THEN "MV" ELSE "ok")

\* f"{locus_id} ({proband_row.RepeatUnit})", lines 270 and 275
CounterKey(proband_row) == proband_row.LocusId \o " (" \o proband_row.RepeatUnit \o ")"

\* a variant that assigns 1 instead of adding 1
Increment_Assign(d, key) == [k \in (DOMAIN d) \cup {key} |-> IF k = key THEN 1 ELSE d[k]]

\* defaultdict(int): d[key] += 1
Increment(d, key) ==
    [k \in (DOMAIN d) \cup {key} |->
        IF k = key THEN (IF key \in DOMAIN d THEN d[key] + 1 ELSE 1) ELSE d[k]]

\* the values the loop body computes for one trio, lines 219-260
Scored(trio) ==
    LET proband_row == trio[1]
        father_row == trio[2]
        mother_row == trio[3]
        proband_alleles == Split(proband_row.Genotype, "/")
        father_alleles == Split(father_row.Genotype, "/")
        mother_alleles == Split(mother_row.Genotype, "/")
        proband_CIs == ParseCIs(proband_row.GenotypeConfidenceInterval)
        father_CIs == ParseCIs(father_row.GenotypeConfidenceInterval)
        mother_CIs == ParseCIs(mother_row.GenotypeConfidenceInterval)
    IN  [asserted |-> /\ AlleleCountOk(proband_alleles)
                      /\ AlleleCountOk(father_alleles)
                      /\ AlleleCountOk(mother_alleles),
         ok |-> ok_mendelian(proband_alleles, father_alleles, mother_alleles),
         distance |-> distance_mendelian(proband_alleles, father_alleles, mother_alleles),
         ok_ci |-> ok_mendelian_ci(Len(proband_alleles), proband_CIs, father_CIs, mother_CIs),
         distance_ci |-> distance_mendelian_ci(Len(proband_alleles), proband_CIs, father_CIs, mother_CIs)]

\* the dict of lines 290-332 (the columns copied from the reference region,
\* sex, coverage and read counts are left out)
ResultsRow(trio, ok, distance, ok_ci, distance_ci) ==
    [LocusId |-> trio[1].LocusId \o " (" \o trio[1].VariantId \o ")",
     RepeatUnit |-> trio[1].RepeatUnit,
     IsMendelianViolation |-> ~ok,
     IsMendelianViolationCI |-> ~ok_ci,
     MendelianViolationDistance |-> distance,
     MendelianViolationDistanceCI |-> distance_ci,
     MendelianViolationSummary |-> MendelianViolationSummary(ok, ok_ci),
     ProbandGenotype |-> trio[1].Genotype,
     ProbandGenotypeCI |-> trio[1].GenotypeConfidenceInterval,
     FatherGenotype |-> trio[2].Genotype,
     FatherGenotypeCI |-> trio[2].GenotypeConfidenceInterval,
     MotherGenotype |-> trio[3].Genotype,
     MotherGenotypeCI |-> trio[3].GenotypeConfidenceInterval,
     ProbandSampleId |-> trio[1].SampleId,
     FatherSampleId |-> trio[2].SampleId,
     MotherSampleId |-> trio[3].SampleId]

\* one iteration of the loop of line 218
ProcessTrio ==
    /\ pc = "loop"
    /\ i <= Len(trio_rows)
    /\ LET trio == trio_rows[i]
           s == Scored(trio)
       IN  IF ~s.asserted
           THEN \* lines 224-226
                /\ pc' = "AssertionError"
                /\ UNCHANGED <<trio_rows, i, scoreVars, groupVars>>
           ELSE IF s.ok /\ s.distance # 0
           THEN \* lines 264-265
                /\ pc' = "AssertionError"
                /\ UNCHANGED <<trio_rows, i, scoreVars, groupVars>>
           ELSE /\ results' = IF ~s.ok THEN Append(results, <<trio[1].LocusId, s.distance, i>>)
                                       ELSE results
                /\ counters' = IF ~s.ok THEN Increment(counters, CounterKey(trio[1]))
                                        ELSE counters
                /\ results_ci' = IF ~s.ok_ci THEN Append(results_ci, <<trio[1].LocusId, i>>)
                                             ELSE results_ci
                /\ counters_ci' = IF ~s.ok_ci THEN Increment(counters_ci, CounterKey(trio[1]))
                                              ELSE counters_ci
                /\ results_rows' = Append(results_rows,
                                          ResultsRow(trio, s.ok, s.distance, s.ok_ci, s.distance_ci))
                /\ i' = i + 1
                /\ pc' = "loop"
                /\ UNCHANGED <<trio_rows, groupVars>>

\* lines 360-370: the loop is over, the table is returned
Return ==
    /\ pc = "loop"
    /\ i > Len(trio_rows)
    /\ pc' = "returned"
    /\ UNCHANGED <<trio_rows, i, scoreVars, groupVars>>

----------------------------------------------------------------------------
(* Inputs *)

\* "/".join(str(a) for a in alleles)
GenotypeStr(alleles) == Join([k \in 1..Len(alleles) |-> IntToStr(alleles[k])], "/")

\* "/".join(f"{lo}-{hi}" for lo, hi in cis)
CIStr(cis) ==
    Join([k \in 1..Len(cis) |-> IntToStr(cis[k][1]) \o <<"-">> \o IntToStr(cis[k][2])], "/")

CallRow(sample, locus, variant, unit, alleles, cis) ==
    [SampleId |-> sample, LocusId |-> locus, VariantId |-> variant, RepeatUnit |-> unit,
     Genotype |-> GenotypeStr(alleles), GenotypeConfidenceInterval |-> CIStr(cis)]

\* a confidence interval that is exactly the allele
Exact(alleles) == [k \in 1..Len(alleles) |-> <<alleles[k], alleles[k]>>]

AlleleLists(S) == {<<a>> : a \in S} \cup {<<a, b>> : a \in S, b \in S}

IntervalsOver(S) == {<<lo, hi>> : lo \in S, hi \in S} \ {<<lo, hi>> \in S \X S : lo > hi}

\* hemizygous, diploid and (malformed) three-allele genotypes with exact intervals
ExactPersons ==
    {[alleles |-> al, cis |-> Exact(al)] :
        al \in AlleleLists(8..MaxAllele) \cup {<<8, 9, 10>>}}

\* hemizygous and diploid genotypes with any interval per allele
CIPersons ==
    {[alleles |-> <<a>>, cis |-> <<c>>] : a \in 9..MaxCI, c \in IntervalsOver(9..MaxCI)}
    \cup
    {[alleles |-> al, cis |-> <<c1, c2>>] :
        al \in (9..MaxCI) \X (9..MaxCI),
        c1 \in IntervalsOver(9..MaxCI), c2 \in IntervalsOver(9..MaxCI)}

TrioOf(p, f, m, locus, unit) ==
    <<CallRow("kid", locus, locus, unit, p.alleles, p.cis),
      CallRow("dad", locus, locus, unit, f.alleles, f.cis),
      CallRow("mom", locus, locus, unit, m.alleles, m.cis)>>

\* a few trios at two loci, for runs over more than one trio
Pool ==
    LET P(al, c) == [alleles |-> al, cis |-> c]
    IN  {TrioOf(P(<<17, 20>>, <<<<17, 17>>, <<20, 20>>>>), P(<<17, 17>>, <<<<17, 17>>, <<17, 17>>>>),
                P(<<20, 22>>, <<<<20, 20>>, <<22, 25>>>>), "HTT", "CAG"),
         TrioOf(P(<<15>>, <<<<15, 15>>>>), P(<<10, 10>>, <<<<10, 10>>, <<10, 10>>>>),
                P(<<15, 18>>, <<<<15, 15>>, <<18, 18>>>>), "AR", "GCA"),
         TrioOf(P(<<17, 20>>, <<<<17, 17>>, <<20, 20>>>>), P(<<17, 20>>, <<<<17, 17>>, <<20, 20>>>>),
                P(<<30, 30>>, <<<<30, 30>>, <<30, 32>>>>), "HTT", "CAG"),
         TrioOf(P(<<18, 20>>, <<<<17, 19>>, <<20, 20>>>>), P(<<17, 17>>, <<<<17, 17>>, <<17, 17>>>>),
                P(<<20, 22>>, <<<<20, 20>>, <<22, 22>>>>), "AR", "GCA"),
         TrioOf(P(<<17, 20>>, <<<<10, 12>>, <<20, 20>>>>), P(<<17, 17>>, <<<<17, 17>>, <<17, 17>>>>),
                P(<<20, 22>>, <<<<20, 20>>, <<22, 22>>>>), "HTT", "CAG"),
         TrioOf(P(<<20, 17>>, <<<<20, 21>>, <<17, 17>>>>), P(<<17, 17>>, <<<<17, 17>>, <<17, 17>>>>),
                P(<<20, 22>>, <<<<20, 20>>, <<22, 22>>>>), "HTT", "CAG"),
         TrioOf(P(<<17, 20, 21>>, <<<<17, 17>>, <<20, 20>>, <<21, 21>>>>),
                P(<<17, 17>>, <<<<17, 17>>, <<17, 17>>>>),
                P(<<20, 22>>, <<<<20, 20>>, <<22, 22>>>>), "AR", "GCA")}

RECURSIVE ListsUpTo(_, _)
ListsUpTo(S, n) ==
    IF n = 0 THEN {<<>>}
    ELSE LET shorter == ListsUpTo(S, n - 1)
         IN  shorter \cup {Append(l, x) : l \in {q \in shorter : Len(q) = n - 1}, x \in S}

InitRun ==
    /\ i = 1
    /\ counters = <<>>
    /\ counters_ci = <<>>
    /\ results = <<>>
    /\ results_ci = <<>>
    /\ results_rows = <<>>
    /\ pc = "loop"
    /\ combined_str_calls_df = <<>>
    /\ filtered_df = <<>>
    /\ all_rows = <<>>
    /\ other_rows = <<>>
    /\ trio_ids = {}
    /\ calls_counter = 0

\* one trio of every shape with exact intervals, and every run over the pool
Init ==
    /\ trio_rows \in {<<TrioOf(p, f, m, "HTT", "CAG")>> : p \in ExactPersons, f \in ExactPersons, m \in ExactPersons}
                     \cup ListsUpTo(Pool, MaxTrios)
    /\ InitRun

\* one trio of every shape with any confidence intervals, and each trio of the pool
InitCI ==
    /\ trio_rows \in {<<TrioOf(p, f, m, "HTT", "CAG")>> : p \in CIPersons, f \in CIPersons, m \in CIPersons}
                     \cup {<<t>> : t \in Pool}
    /\ InitRun

Next == ProcessTrio \/ Return

Spec == Init /\ [][Next]_vars

SpecCI == InitCI /\ [][Next]_vars

----------------------------------------------------------------------------
(* group_rows_by_trio *)

\* pandas' missing value: what the left join of line 384 leaves in father_id and
\* mother_id of a sample the .fam file does not give them for
NaN == "<NaN>"

isna(v) == v = NaN

\* dict.get(key): None when the key is absent
None == [None |-> TRUE]

\* a variant that, when the key is absent, settles for a record of the same
\* identifier and locus under another variant
Get_AnyVariant(d, key) ==
    IF key \in DOMAIN d THEN d[key]
    ELSE IF \E k \in DOMAIN d : k[1] = key[1] /\ k[2] = key[2]
         THEN d[CHOOSE k \in DOMAIN d : k[1] = key[1] /\ k[2] = key[2]]
         ELSE None

Get(d, key) == IF key \in DOMAIN d THEN d[key] ELSE None

\* d[key] = value
Put(d, key, value) == [k \in (DOMAIN d) \cup {key} |-> IF k = key THEN value ELSE d[k]]

\* lines 139-141: one iteration of the loop of line 138
Cached(d, row) ==
    IF row.Genotype # None
    THEN Put(Put(d, <<row.SampleId, row.LocusId, row.VariantId>>, row),
             <<row.Filename, row.LocusId, row.VariantId>>, row)
    ELSE d

CacheRow ==
    /\ pc = "cache"
    /\ i <= Len(combined_str_calls_df)
    /\ all_rows' = Cached(all_rows, combined_str_calls_df[i])
    /\ i' = i + 1
    /\ UNCHANGED <<trio_rows, pc, scoreVars, combined_str_calls_df, filtered_df, other_rows,
                   trio_ids, calls_counter>>

\* a variant that keeps the rows with one parent on file
IsCandidate_EitherParent(row) == ~isna(row.father_id) \/ ~isna(row.mother_id)

\* line 148
IsCandidate(row) == ~isna(row.father_id) /\ ~isna(row.mother_id)

\* lines 143-149: the first loop is over; the table is filtered to candidate rows
FilterRows ==
    /\ pc = "cache"
    /\ i > Len(combined_str_calls_df)
    /\ calls_counter' = 0
    /\ trio_ids' = {}
    /\ trio_rows' = <<>>
    /\ other_rows' = <<>>
    /\ filtered_df' = SelectSeq(combined_str_calls_df, IsCandidate)
    /\ i' = 1
    /\ pc' = "match"
    /\ UNCHANGED <<scoreVars, combined_str_calls_df, all_rows>>

\* lines 152-164: one iteration of the loop of line 151
MatchRow ==
    /\ pc = "match"
    /\ i <= Len(filtered_df)
    /\ LET row == filtered_df[i]
           father_row == Get(all_rows, <<row.father_id, row.LocusId, row.VariantId>>)
           mother_row == Get(all_rows, <<row.mother_id, row.LocusId, row.VariantId>>)
       IN  IF father_row = None \/ mother_row = None
           THEN /\ other_rows' = Append(other_rows, row)
                /\ UNCHANGED <<trio_rows, trio_ids, calls_counter>>
           ELSE /\ trio_ids' = trio_ids \cup {<<row.SampleId, row.father_id, row.mother_id>>}
                /\ trio_rows' = Append(trio_rows, <<row, father_row, mother_row>>)
                /\ calls_counter' = calls_counter + 1
                /\ UNCHANGED other_rows
    /\ i' = i + 1
    /\ UNCHANGED <<pc, scoreVars, combined_str_calls_df, filtered_df, all_rows>>

\* lines 166-168
ReturnGroups ==
    /\ pc = "match"
    /\ i > Len(filtered_df)
    /\ pc' = "grouped"
    /\ UNCHANGED <<trio_rows, i, scoreVars, groupVars>>

\* The .fam files of the model: "kid" has the father "dad" or none and the
\* mother "mom" or none; "dad" and "mom" have no parents on file.
Pedigrees ==
    {[s \in {"kid", "dad", "mom"} |->
        IF s = "kid" THEN [father_id |-> f, mother_id |-> m]
        ELSE [father_id |-> NaN, mother_id |-> NaN]] :
     f \in {"dad", NaN}, m \in {"mom", NaN}}

\* the rows of a calls table before the join: Filename is the sample's own file
\* or, the naming inconsistency the two aliases are there for, the name "dad"
CallKeys ==
    [SampleId : {"kid", "dad", "mom"}, Filename : {"f.json", "dad"}, LocusId : {"HTT", "AR"}]

\* lines 381-384: the left join of the calls table with the .fam file on SampleId
Joined(key, fam) ==
    [SampleId |-> key.SampleId, Filename |-> key.Filename,
     LocusId |-> key.LocusId, VariantId |-> key.LocusId,
     Genotype |-> <<"1", "7">>,
     father_id |-> fam[key.SampleId].father_id,
     mother_id |-> fam[key.SampleId].mother_id]

\* tables of at most n rows with no key twice (check_for_duplicate_keys, line 102)
RECURSIVE TablesUpTo(_)
TablesUpTo(n) ==
    IF n = 0 THEN {<<>>}
    ELSE LET shorter == TablesUpTo(n - 1)
         IN  shorter \cup
             {Append(t, k) : t \in {q \in shorter : Len(q) = n - 1},
                             k \in CallKeys} 

NoDuplicateKeys(t) == \A a \in 1..Len(t), b \in 1..Len(t) : a # b => t[a] # t[b]

InitGroup ==
    /\ \E t \in {q \in TablesUpTo(MaxRows) : NoDuplicateKeys(q)}, fam \in Pedigrees :
           combined_str_calls_df = [k \in 1..Len(t) |-> Joined(t[k], fam)]
    /\ filtered_df = <<>>
    /\ all_rows = <<>>
    /\ other_rows = <<>>
    /\ trio_rows = <<>>
    /\ trio_ids = {}
    /\ calls_counter = 0
    /\ i = 1
    /\ pc = "cache"
    /\ counters = <<>>
    /\ counters_ci = <<>>
    /\ results = <<>>
    /\ results_ci = <<>>
    /\ results_rows = <<>>

NextGroup == CacheRow \/ FilterRows \/ MatchRow \/ ReturnGroups

SpecGroup == InitGroup /\ [][NextGroup]_vars

\* the (LocusId, VariantId) pairs of a catalog with a locus of two variants
Sites == {<<"HTT", "HTT">>, <<"HTT", "HTT_CCG">>, <<"AR", "AR">>}

\* the rows of a calls table before the join, at any of the sites
SiteKeys == [SampleId : {"kid", "dad", "mom"}, Filename : {"f.json", "dad"}, Site : Sites]

\* lines 381-384, for a row at a site
JoinedAtSite(key, fam) ==
    [SampleId |-> key.SampleId, Filename |-> key.Filename,
     LocusId |-> key.Site[1], VariantId |-> key.Site[2],
     Genotype |-> <<"1", "7">>,
     father_id |-> fam[key.SampleId].father_id,
     mother_id |-> fam[key.SampleId].mother_id]

\* tables of at most n rows over SiteKeys
RECURSIVE SiteTablesUpTo(_)
SiteTablesUpTo(n) ==
    IF n = 0 THEN {<<>>}
    ELSE LET shorter == SiteTablesUpTo(n - 1)
         IN  shorter \cup
             {Append(t, k) : t \in {q \in shorter : Len(q) = n - 1}, k \in SiteKeys}

\* a calls table with loci of several variants, joined with a .fam file
InitSites ==
    /\ \E t \in {q \in SiteTablesUpTo(MaxSiteRows) : NoDuplicateKeys(q)}, fam \in Pedigrees :
           combined_str_calls_df = [k \in 1..Len(t) |-> JoinedAtSite(t[k], fam)]
    /\ filtered_df = <<>>
    /\ all_rows = <<>>
    /\ other_rows = <<>>
    /\ trio_rows = <<>>
    /\ trio_ids = {}
    /\ calls_counter = 0
    /\ i = 1
    /\ pc = "cache"
    /\ counters = <<>>
    /\ counters_ci = <<>>
    /\ results = <<>>
    /\ results_ci = <<>>
    /\ results_rows = <<>>

SpecSites == InitSites /\ [][NextGroup]_vars

----------------------------------------------------------------------------
(* What the properties below say about a trio, stated on the input values *)

\* the allele lengths a Genotype string holds
AllelesOf(row) ==
    LET parts == Split(row.Genotype, "/")
    IN  [k \in 1..Len(parts) |-> StrToInt(parts[k])]

\* the number of "/"-separated parts of a Genotype string
NumParts(row) == Cardinality({k \in 1..Len(row.Genotype) : row.Genotype[k] = "/"}) + 1

WellFormed(trio) == \A k \in 1..3 : NumParts(trio[k]) \in {1, 2}

\* the smallest absolute difference between p and an allele of the parent
MinDist(p, parent) ==
    CHOOSE d \in 0..1000 :
        /\ \E k \in 1..Len(parent) : d = Abs(p - parent[k])
        /\ \A k \in 1..Len(parent) : d <= Abs(p - parent[k])

\* the trios the loop has already turned into a result row
Processed == 1..Len(results_rows)

----------------------------------------------------------------------------
(* C1 *)

\* C1: for every trio whose three genotypes have 1 or 2 alleles, the assertion
\* 'distance_mendelian == 0' of line 265 never fails (the run is never aborted
\* at such a trio), and every emitted row with IsMendelianViolation = FALSE
\* has MendelianViolationDistance = 0.
C1_ConsistentMeansZeroDistance ==
    /\ (pc = "AssertionError" => ~WellFormed(trio_rows[i]))
    /\ \A k \in Processed :
           ~results_rows[k].IsMendelianViolation => results_rows[k].MendelianViolationDistance = 0

\* a consistent two-allele trio has been scored
C1_Witness ==
    /\ pc = "returned"
    /\ \E k \in Processed :
           /\ ~results_rows[k].IsMendelianViolation
           /\ NumParts(trio_rows[k][1]) = 2
           /\ results_rows[k].MendelianViolationDistance = 0

----------------------------------------------------------------------------
(* C2 *)

C2_Expected(p, f, m) ==
    [ok |-> \/ (p[1] \in SetOf(f) /\ p[2] \in SetOf(m))
            \/ (p[2] \in SetOf(f) /\ p[1] \in SetOf(m)),
     distance |-> Min2(MinDist(p[1], f) + MinDist(p[2], m), MinDist(p[2], f) + MinDist(p[1], m))]

C2_IsExample(trio) ==
    /\ AllelesOf(trio[1]) = <<17, 20>>
    /\ AllelesOf(trio[2]) = <<17, 17>>
    /\ AllelesOf(trio[3]) = <<20, 22>>

\* C2: for a proband with two alleles [p0, p1], the row is consistent iff
\* (p0 is a father allele and p1 a mother allele) or (p1 is a father allele and
\* p0 a mother allele), and its distance is the smaller of
\* mindist(p0, father) + mindist(p1, mother) and mindist(p1, father) + mindist(p0, mother);
\* proband 17/20, father 17/17, mother 20/22 is consistent with distance 0.
C2_TwoAlleleCase ==
    \A k \in Processed :
        NumParts(trio_rows[k][1]) = 2 =>
            LET e == C2_Expected(AllelesOf(trio_rows[k][1]), AllelesOf(trio_rows[k][2]),
                                 AllelesOf(trio_rows[k][3]))
            IN  /\ results_rows[k].IsMendelianViolation = ~e.ok
                /\ results_rows[k].MendelianViolationDistance = e.distance
                /\ (C2_IsExample(trio_rows[k]) =>
                        /\ ~results_rows[k].IsMendelianViolation
                        /\ results_rows[k].MendelianViolationDistance = 0)

\* the example trio has been scored, and so has a two-allele trio that only the
\* second assignment makes consistent
C2_Witness ==
    /\ \E k \in Processed : C2_IsExample(trio_rows[k])
    /\ \E k \in Processed :
           LET p == AllelesOf(trio_rows[k][1])
           IN  /\ NumParts(trio_rows[k][1]) = 2
               /\ ~results_rows[k].IsMendelianViolation
               /\ ~(p[1] \in SetOf(AllelesOf(trio_rows[k][2])) /\ p[2] \in SetOf(AllelesOf(trio_rows[k][3])))

----------------------------------------------------------------------------
(* C4 *)

C4_SameSet(a, b) == NumParts(a) = 2 /\ NumParts(b) = 2 /\ SetOf(AllelesOf(a)) = SetOf(AllelesOf(b))

C4_Shares(a, b) == SetOf(AllelesOf(a)) \cap SetOf(AllelesOf(b)) # {}

C4_Consistent(k) ==
    /\ ~results_rows[k].IsMendelianViolation
    /\ results_rows[k].MendelianViolationDistance = 0

\* C4 as claimed: whenever the proband has two alleles and the father or the
\* mother has the same two-allele genotype set, whatever the other parent's
\* genotype, the row is consistent with distance 0.
C4_Original ==
    \A k \in Processed :
        (C4_SameSet(trio_rows[k][1], trio_rows[k][2]) \/ C4_SameSet(trio_rows[k][1], trio_rows[k][3]))
            => C4_Consistent(k)

\* C4 amended: whenever the proband has two alleles, one parent has the same
\* two-allele genotype set and the other parent has at least one of the
\* proband's alleles, the row is consistent with distance 0.
C4_Amended ==
    \A k \in Processed :
        \/ (C4_SameSet(trio_rows[k][1], trio_rows[k][2]) /\ C4_Shares(trio_rows[k][1], trio_rows[k][3]))
        \/ (C4_SameSet(trio_rows[k][1], trio_rows[k][3]) /\ C4_Shares(trio_rows[k][1], trio_rows[k][2]))
        => C4_Consistent(k)

\* a heterozygous proband with the father's genotype set, whose mother carries
\* only the proband's first allele, has been scored
C4_Witness ==
    \E k \in Processed :
        LET p == AllelesOf(trio_rows[k][1])
        IN  /\ C4_SameSet(trio_rows[k][1], trio_rows[k][2])
            /\ p[1] # p[2]
            /\ SetOf(AllelesOf(trio_rows[k][3])) \cap SetOf(p) = {p[1]}
            /\ C4_Consistent(k)

----------------------------------------------------------------------------
(* C7 *)

RECURSIVE SumOver(_, _)
SumOver(d, keys) ==
    IF keys = {} THEN 0
    ELSE LET key == CHOOSE x \in keys : TRUE
         IN  d[key] + SumOver(d, keys \ {key})

\* sum(d.values())
Total(d) == SumOver(d, DOMAIN d)

\* d[key] of a defaultdict(int), without inserting the key
Count(d, key) == IF key \in DOMAIN d THEN d[key] ELSE 0

C7_KeysOf(trio) == {trio[1].LocusId \o " (" \o trio[1].RepeatUnit \o ")"}

\* the counters d and e differ by exactly 1 at exactly the key of the trio
C7_OneMore(d, e, trio) ==
    /\ \A key \in C7_KeysOf(trio) : Count(e, key) = Count(d, key) + 1
    /\ \A key \in ((DOMAIN d) \cup (DOMAIN e)) \ C7_KeysOf(trio) : Count(e, key) = Count(d, key)

C7_Sums ==
    /\ Total(counters) = Cardinality({k \in Processed : results_rows[k].IsMendelianViolation})
    /\ Total(counters_ci) = Cardinality({k \in Processed : results_rows[k].IsMendelianViolationCI})

C7_Step ==
    Len(results_rows') = Len(results_rows) + 1 =>
        LET row == results_rows'[Len(results_rows')]
            trio == trio_rows[i]
        IN  /\ IF row.IsMendelianViolation THEN C7_OneMore(counters, counters', trio)
                                           ELSE counters' = counters
            /\ IF row.IsMendelianViolationCI THEN C7_OneMore(counters_ci, counters_ci', trio)
                                             ELSE counters_ci' = counters_ci

\* C7: after any prefix of the trio list, and at the end of the run, the
\* per-locus exact counters sum to the number of result rows with
\* IsMendelianViolation = TRUE and the CI counters to the number with
\* IsMendelianViolationCI = TRUE; a violating trio adds exactly 1 to exactly
\* the key of its locus and repeat unit, a non-violating trio changes no counter.
C7_CountersMatchRows == [](C7_Sums) /\ [][C7_Step]_vars

\* a run has returned with two exact violations at one locus, one at another,
\* and a different number of CI violations
C7_Witness ==
    /\ pc = "returned"
    /\ Len(results_rows) = 3
    /\ \E key \in DOMAIN counters : counters[key] = 2
    /\ Cardinality(DOMAIN counters) = 2
    /\ Total(counters_ci) # Total(counters)

----------------------------------------------------------------------------
(* C9 *)

C9_Step ==
    /\ (pc = "loop" /\ i <= Len(trio_rows)) =>
          IF WellFormed(trio_rows[i])
          THEN pc' # "AssertionError"
          ELSE /\ pc' = "AssertionError"
               /\ results_rows' = results_rows
               /\ counters' = counters
               /\ counters_ci' = counters_ci
    /\ pc = "AssertionError" =>
          /\ pc' = "AssertionError"
          /\ results_rows' = results_rows
          /\ counters' = counters
          /\ counters_ci' = counters_ci

\* C9: when the Genotype of the proband, father or mother of a trio splits
\* into a number of alleles other than 1 or 2, the run is aborted by an
\* assertion at that trio: no row is appended for it or any later trio, no
\* counter changes, and nothing is returned; a trio whose three genotypes have
\* 1 or 2 alleles never aborts the run.
C9_BadAlleleCountAborts ==
    /\ [](pc = "AssertionError" => i <= Len(trio_rows) /\ ~WellFormed(trio_rows[i])
                                   /\ Len(results_rows) = i - 1)
    /\ [][C9_Step]_vars

\* a run was aborted at its third trio, two rows in
C9_Witness ==
    /\ pc = "AssertionError"
    /\ i = 3
    /\ Len(results_rows) = 2
    /\ Total(counters) > 0

----------------------------------------------------------------------------
(* C3 *)

\* the confidence intervals a GenotypeConfidenceInterval string holds
CIsOf(row) == ParseCIs(row.GenotypeConfidenceInterval)

\* two closed intervals have a point in common
SharePoint(a, b) == (a.begin..a.end) \cap (b.begin..b.end) # {}

C3_IsExample(trio) ==
    /\ AllelesOf(trio[1]) = <<15>>
    /\ AllelesOf(trio[2]) = <<10, 10>>
    /\ AllelesOf(trio[3]) = <<15, 18>>

\* C3: for a proband with one allele p, the row is consistent iff p equals a
\* father allele or a mother allele, its distance is
\* min(mindist(p, father), mindist(p, mother)), and it is CI-consistent iff the
\* proband's interval overlaps an interval of the father or of the mother;
\* proband 15, father 10/10, mother 15/18 is consistent with distance 0.
C3_SingleAlleleCase ==
    \A k \in Processed :
        NumParts(trio_rows[k][1]) = 1 =>
            LET p == AllelesOf(trio_rows[k][1])[1]
                f == AllelesOf(trio_rows[k][2])
                m == AllelesOf(trio_rows[k][3])
                c == CIsOf(trio_rows[k][1])[1]
                parent_CIs == CIsOf(trio_rows[k][2]) \o CIsOf(trio_rows[k][3])
            IN  /\ results_rows[k].IsMendelianViolation = ~(p \in SetOf(f) \/ p \in SetOf(m))
                /\ results_rows[k].MendelianViolationDistance = Min2(MinDist(p, f), MinDist(p, m))
                /\ results_rows[k].IsMendelianViolationCI =
                       ~(\E n \in 1..Len(parent_CIs) : SharePoint(c, parent_CIs[n]))
                /\ (C3_IsExample(trio_rows[k]) =>
                        /\ ~results_rows[k].IsMendelianViolation
                        /\ results_rows[k].MendelianViolationDistance = 0)

\* the example trio has been scored
C3_Witness ==
    /\ pc = "returned"
    /\ \E k \in Processed :
           /\ C3_IsExample(trio_rows[k])
           /\ ~results_rows[k].IsMendelianViolation
           /\ ~results_rows[k].IsMendelianViolationCI

----------------------------------------------------------------------------
(* C8 *)

\* the gap between two closed intervals that have no point in common
Gap(c, o) == IF c.end < o.begin THEN o.begin - c.end ELSE c.begin - o.end

C8_Expected(c, L) ==
    IF \E n \in 1..Len(L) : intervals_overlap(c, L[n]) THEN 0
    ELSE CHOOSE d \in 0..1000 :
             /\ \E n \in 1..Len(L) : d = Gap(c, L[n])
             /\ \A n \in 1..Len(L) : d <= Gap(c, L[n])

\* C8: for an interval c and a non-empty list L of intervals with low <= high,
\* degenerate ones included, compute_min_distance_mendelian_ci(c, L) is 0 when
\* c overlaps a member of L in the closed sense of intervals_overlap and the
\* smallest gap otherwise (here c is the proband's first interval and L the
\* father's or the mother's intervals); so every row with
\* IsMendelianViolationCI = FALSE has MendelianViolationDistanceCI = 0.
C8_DistanceZeroIffOverlap ==
    \A k \in Processed :
        LET c == CIsOf(trio_rows[k][1])[1]
        IN  /\ \A n \in 2..3 :
                   compute_min_distance_mendelian_ci(c, CIsOf(trio_rows[k][n]))
                       = C8_Expected(c, CIsOf(trio_rows[k][n]))
            /\ (~results_rows[k].IsMendelianViolationCI
                    => results_rows[k].MendelianViolationDistanceCI = 0)

----------------------------------------------------------------------------
(* C10 *)

\* every allele of the genotype lies in the confidence interval reported for it
AllelesInCIs(row) ==
    /\ Len(CIsOf(row)) = Len(AllelesOf(row))
    /\ \A n \in 1..Len(AllelesOf(row)) :
           CIsOf(row)[n].begin <= AllelesOf(row)[n] /\ AllelesOf(row)[n] <= CIsOf(row)[n].end

C10_SummaryOk(k) ==
    results_rows[k].MendelianViolationSummary = "ok"
        <=> (~results_rows[k].IsMendelianViolation /\ ~results_rows[k].IsMendelianViolationCI)

----------------------------------------------------------------------------
(* C5, C6 *)

\* the rows of a list, as a set
Rows(list) == {list[k] : k \in 1..Len(list)}

\* the proband rows of the trios emitted so far
Probands == {trio_rows[k][1] : k \in 1..Len(trio_rows)}

\* the candidate rows of the table main() passed in
Candidates ==
    {k \in 1..Len(combined_str_calls_df) :
        combined_str_calls_df[k].father_id # NaN /\ combined_str_calls_df[k].mother_id # NaN}

\* the index holds no record for the father or for the mother of the row
C5_Misses(row) ==
    \/ <<row.father_id, row.LocusId, row.VariantId>> \notin DOMAIN all_rows
    \/ <<row.mother_id, row.LocusId, row.VariantId>> \notin DOMAIN all_rows

\* C5: a candidate row for which the index has no record of the father or none
\* of the mother is appended to the non-trio rows and is not the proband of a
\* trio; every candidate row lands in exactly one of the two outputs, and the
\* trios and the non-trio rows together are as many as the candidate rows.
C5_MissingParentGoesToOther ==
    /\ pc = "match" => Len(trio_rows) + Len(other_rows) = i - 1
    /\ pc = "grouped" =>
          /\ Len(trio_rows) + Len(other_rows) = Cardinality(Candidates)
          /\ \A k \in Candidates :
                LET row == combined_str_calls_df[k]
                IN  /\ (row \in Rows(other_rows)) # (row \in Probands)
                    /\ C5_Misses(row) => (row \in Rows(other_rows) /\ row \notin Probands)
                    /\ Cardinality({n \in 1..Len(other_rows) : other_rows[n] = row}) <= 1
                    /\ Cardinality({n \in 1..Len(trio_rows) : trio_rows[n][1] = row}) <= 1

\* a table has been grouped into one trio and one non-trio row, whose father is
\* on file at another locus only
C5_Witness ==
    /\ pc = "grouped"
    /\ Len(trio_rows) = 1
    /\ Len(other_rows) = 1
    /\ <<other_rows[1].father_id, other_rows[1].LocusId, other_rows[1].VariantId>> \notin DOMAIN all_rows
    /\ \E k \in 1..Len(combined_str_calls_df) :
           /\ combined_str_calls_df[k].SampleId = other_rows[1].father_id
           /\ combined_str_calls_df[k].LocusId # other_rows[1].LocusId

\* C6: every record of the table passed to group_rows_by_trio that is not the
\* proband of an emitted trio, records with a missing father_id or mother_id
\* included, is in the non-trio rows.
C6_OutputsCoverTable ==
    pc = "grouped" =>
        \A k \in 1..Len(combined_str_calls_df) :
            combined_str_calls_df[k] \in Probands \cup Rows(other_rows)

----------------------------------------------------------------------------
(* C11 *)

\* the record is filed under the identifier: as its SampleId or as its Filename
C11_Named(record, id) == record.SampleId = id \/ record.Filename = id

\* C11: in every trio group_rows_by_trio emits, whatever the calls table (also
\* when one record's Filename is another record's SampleId, so that entries of
\* the index overwrite each other), the father record and the mother record
\* have the LocusId and the VariantId of the proband record, the father
\* record's SampleId or Filename is the proband's father_id, and the mother
\* record's SampleId or Filename is the proband's mother_id.
C11_ParentsMatchProband ==
    \A n \in 1..Len(trio_rows) :
        LET row == trio_rows[n][1]
            father_row == trio_rows[n][2]
            mother_row == trio_rows[n][3]
        IN  /\ father_row.LocusId = row.LocusId /\ father_row.VariantId = row.VariantId
            /\ mother_row.LocusId = row.LocusId /\ mother_row.VariantId = row.VariantId
            /\ C11_Named(father_row, row.father_id)
            /\ C11_Named(mother_row, row.mother_id)

\* a trio has been emitted whose father record is another sample's: its
\* Filename is the father's name, and its entry of the index has overwritten
\* the one of the father's own record at that locus and variant
C11_Witness ==
    /\ pc = "grouped"
    /\ \E n \in 1..Len(trio_rows) :
           LET row == trio_rows[n][1]
               father_row == trio_rows[n][2]
           IN  /\ father_row.SampleId # row.father_id
               /\ father_row.Filename = row.father_id
               /\ \E k \in 1..Len(combined_str_calls_df) :
                      /\ combined_str_calls_df[k].SampleId = row.father_id
                      /\ combined_str_calls_df[k].LocusId = row.LocusId
                      /\ combined_str_calls_df[k].VariantId = row.VariantId

====
